---- MODULE Spec2Model ----
(***************************************************************************)
(* A model of the cmap transcoder of src/src/cmap.rs: Table::read,         *)
(* Table::write, convert_subtable_4_to_12, map_glyph_to_pua_12 and the     *)
(* orchestrator map_glyphs.  Buffers are sequences of bytes (0..255); all  *)
(* multi-byte fields are big-endian.  Offsets are 0-based as in the code,  *)
(* sequences are 1-based, so byte offset o is element o + 1.               *)
(***************************************************************************)
EXTENDS Integers, Sequences, FiniteSets, TLC

VARIABLES pc, data, map_glyphs_on, num_glyphs, debug_assertions,
          table, tab_12_id, st0, st, result, pushed, table2

vars == <<pc, data, map_glyphs_on, num_glyphs, debug_assertions,
          table, tab_12_id, st0, st, result, pushed, table2>>

(***************************************************************************)
(* Bounds of the model.                                                    *)
(***************************************************************************)
MaxGroups == 3
MaxGlyphs == 3
MaxSegs == 2
MaxSpan == 2
MaxRecords == 2

(***************************************************************************)
(* Reader / Writer primitives (bounds-checked big-endian reads, append-    *)
(* only writer with alignment).                                            *)
(***************************************************************************)
Err == 0 - 1

None == <<"none">>

BE16(x) == <<(x \div 256) % 256, x % 256>>

BE32(x) == <<(x \div 16777216) % 256, (x \div 65536) % 256, (x \div 256) % 256, x % 256>>

ReadU16At(d, o) ==
  IF o >= 0 /\ o + 2 <= Len(d) THEN d[o + 1] * 256 + d[o + 2] ELSE Err

ReadU32At(d, o) ==
  IF o >= 0 /\ o + 4 <= Len(d)
  THEN d[o + 1] * 16777216 + d[o + 2] * 65536 + d[o + 3] * 256 + d[o + 4]
  ELSE Err

Zeros(n) == [i \in 1..n |-> 0]

\* Writer::align(4): zero padding up to the next multiple of 4
Align4(w) == w \o Zeros((4 - (Len(w) % 4)) % 4)

\* data[at..at + Len(bytes)].copy_from_slice(bytes)
Patch(d, at, bytes) ==
  [i \in 1..Len(d) |-> IF i > at /\ i <= at + Len(bytes) THEN bytes[i - at] ELSE d[i]]

\* &d[from..to], defined when from <= to <= Len(d)
Slice(d, from, to) == SubSeq(d, from + 1, to)

SliceOk(d, from, to) == from <= to /\ to <= Len(d)

\* Cow::Owned payloads have no place in the source buffer
Owned == 0 - 1

Subtable(format, language, bytes, off) ==
  [format |-> format, language |-> language, data |-> bytes, off |-> off]

\* placeholders for a table or subtable that does not exist (yet)
NoTable == [version |-> 0, encoding_records |-> <<>>, subtables |-> <<>>]

NoSubtable == Subtable(0, 0, <<>>, Owned)

(***************************************************************************)
(* map_glyph_to_pua_12                                                     *)
(***************************************************************************)
glyph_start_code == 983040

GlyphEndCode(n) == glyph_start_code + n - 1

RECURSIVE ReadGroups(_, _, _, _)
\* the loop of lines 209-215: cur_group is d[16 + 12 * k ..]
ReadGroups(d, k, n, acc) ==
  IF k = n THEN [res |-> "ok", groups |-> acc]
  ELSE LET cur == 16 + 12 * k
           start_code == ReadU32At(d, cur)
           end_code == ReadU32At(d, cur + 4)
           start_glyph_id == ReadU32At(d, cur + 8)
       IN IF start_code = Err \/ end_code = Err \/ start_glyph_id = Err
          THEN [res |-> "err", groups |-> <<>>]
          ELSE IF ~SliceOk(d, cur + 12, Len(d))
          THEN [res |-> "panic", groups |-> <<>>]
          ELSE ReadGroups(d, k + 1, n, Append(acc, <<start_code, end_code, start_glyph_id>>))

ParseGroups12(d) ==
  LET n_groups == ReadU32At(d, 12)
  IN IF n_groups = Err THEN [res |-> "err", groups |-> <<>>]
     ELSE IF ~SliceOk(d, 16, Len(d)) THEN [res |-> "panic", groups |-> <<>>]
     ELSE ReadGroups(d, 0, n_groups, <<>>)

\* groups.partition_point(|g| g.1 < glyph_start_code), 0-based
IStart(groups, gsc) ==
  LET hit == {i \in 1..Len(groups) : ~(groups[i][2] < gsc)}
  IN IF hit = {} THEN Len(groups)
     ELSE (CHOOSE i \in hit : \A j \in hit : i <= j) - 1

\* groups.partition_point(|g| g.0 <= glyph_end_code), 0-based
IEnd(groups, gec) ==
  LET hit == {i \in 1..Len(groups) : ~(groups[i][1] <= gec)}
  IN IF hit = {} THEN Len(groups)
     ELSE (CHOOSE i \in hit : \A j \in hit : i <= j) - 1

WindowGroup_Shifted(gsc, gec) == <<gsc, gec, 1>>

WindowGroup(gsc, gec) == <<gsc, gec, 0>>

LeftRemainder(g, gsc) ==
  IF g[1] < gsc THEN << <<g[1], gsc - 1, g[3]>> >> ELSE <<>>

RightRemainder_FromStart(g, gec) ==
  IF g[2] > gec THEN << <<gec + 1, g[2], g[3]>> >> ELSE <<>>

RightRemainder(g, gec) ==
  IF g[2] > gec THEN << <<gec + 1, g[2], g[3] + gec + 1 - g[1]>> >> ELSE <<>>

\* lines 216-253; a splice range with i_start > i_end panics
SpliceGroups(groups, n) ==
  LET gsc == glyph_start_code
      gec == GlyphEndCode(n)
      i_start == IStart(groups, gsc)
      i_end == IEnd(groups, gec)
  IN IF i_start = i_end
     THEN [res |-> "ok",
           groups |-> SubSeq(groups, 1, i_start) \o << WindowGroup(gsc, gec) >>
                      \o SubSeq(groups, i_start + 1, Len(groups))]
     ELSE IF i_start > i_end
     THEN [res |-> "panic", groups |-> <<>>]
     ELSE [res |-> "ok",
           groups |-> SubSeq(groups, 1, i_start)
                      \o LeftRemainder(groups[i_start + 1], gsc)
                      \o << WindowGroup(gsc, gec) >>
                      \o RightRemainder(groups[i_end], gec)
                      \o SubSeq(groups, i_end + 1, Len(groups))]

RECURSIVE WriteGroups(_)
WriteGroups(groups) ==
  IF groups = <<>> THEN <<>>
  ELSE BE32(Head(groups)[1]) \o BE32(Head(groups)[2]) \o BE32(Head(groups)[3])
       \o WriteGroups(Tail(groups))

\* lines 254-266
SerializeGroups12(d, groups) ==
  LET w == Align4(Slice(d, 0, 12) \o BE32(Len(groups)) \o WriteGroups(groups))
  IN Patch(w, 4, BE32(Len(w)))

MapGlyphToPua12(s, n) ==
  LET parsed == ParseGroups12(s.data)
      spliced == SpliceGroups(parsed.groups, n)
  IN IF parsed.res # "ok" THEN [res |-> parsed.res, st |-> s]
     ELSE IF spliced.res # "ok" THEN [res |-> spliced.res, st |-> s]
     ELSE IF ~SliceOk(s.data, 0, 12) THEN [res |-> "panic", st |-> s]
     ELSE [res |-> "ok",
           st |-> Subtable(s.format, s.language,
                           SerializeGroups12(s.data, spliced.groups), Owned)]

(***************************************************************************)
(* convert_subtable_4_to_12                                                *)
(***************************************************************************)
RECURSIVE NextPowerOfTwo(_, _)
\* u16::next_power_of_two: the least power of two >= x, from p upwards
NextPowerOfTwo(x, p) == IF p >= x THEN p ELSE NextPowerOfTwo(x, 2 * p)

RECURSIVE TrailingZeros(_)
\* u16::trailing_zeros; 16 for 0
TrailingZeros(x) ==
  IF x = 0 THEN 16 ELSE IF x % 2 = 1 THEN 0 ELSE 1 + TrailingZeros(x \div 2)

\* lines 113-121: the derived search fields and the debug-build cross-check.
\* Arithmetic overflow panics under debug assertions and wraps without them.
SearchFields(seg_count_x2, debug) ==
  LET overflow == seg_count_x2 + 1 > 32768
      search_range == IF overflow THEN 0
                      ELSE NextPowerOfTwo(seg_count_x2 + 1, 1) \div 2
      underflow == TrailingZeros(search_range) = 0
      entry_selector == (TrailingZeros(search_range) + 65535) % 65536
  IN [res |-> IF debug /\ (overflow \/ underflow) THEN "panic" ELSE "ok",
      search_range |-> search_range,
      entry_selector |-> entry_selector,
      range_shift |-> seg_count_x2 - search_range]

\* u16::wrapping_add
WrappingAdd16(a, b) == (a + b) % 65536

\* line 175: the pending run stays affine with slope 1
RunContinues(pending, c, glyph_id) == c + pending[3] = pending[1] + glyph_id

RECURSIVE ConvertRun(_, _, _, _, _, _, _)
\* lines 163-186: the glyph-index-array walk of one segment; at is the
\* position of the entry of start_code, pending is <<>> for no pending run
ConvertRun(d, at, start_code, c, end_code, pending, acc) ==
  IF c > end_code
  THEN [res |-> "ok", groups |-> IF pending = <<>> THEN acc ELSE Append(acc, pending)]
  ELSE LET glyph_id == ReadU16At(d, at + (c - start_code) * 2)
       IN IF glyph_id = Err THEN [res |-> "err", groups |-> <<>>]
          ELSE IF pending = <<>>
          THEN ConvertRun(d, at, start_code, c + 1, end_code, <<c, c, glyph_id>>, acc)
          ELSE IF RunContinues(pending, c, glyph_id)
          THEN ConvertRun(d, at, start_code, c + 1, end_code,
                          <<pending[1], c, pending[3]>>, acc)
          ELSE ConvertRun(d, at, start_code, c + 1, end_code,
                          <<c, c, glyph_id>>, Append(acc, pending))

RECURSIVE ConvertSegments(_, _, _, _)
\* lines 151-188; the four arrays start at 14, 16 + x2, 16 + 2*x2, 16 + 3*x2
ConvertSegments(d, seg_count_x2, i, acc) ==
  IF i = seg_count_x2 \div 2 THEN [res |-> "ok", groups |-> acc]
  ELSE LET base == 16 + 3 * seg_count_x2
           start_code == ReadU16At(d, 16 + seg_count_x2 + i * 2)
           end_code == ReadU16At(d, 14 + i * 2)
           id_range_offset == ReadU16At(d, base + i * 2)
           id_delta == ReadU16At(d, 16 + 2 * seg_count_x2 + i * 2)
       IN IF id_range_offset = 0
          THEN ConvertSegments(d, seg_count_x2, i + 1,
                 Append(acc, <<start_code, end_code, WrappingAdd16(id_delta, start_code)>>))
          ELSE LET run == ConvertRun(d, base + i * 2 + id_range_offset, start_code,
                                     start_code, end_code, <<>>, <<>>)
               IN IF run.res # "ok" THEN run
                  ELSE ConvertSegments(d, seg_count_x2, i + 1, acc \o run.groups)

\* lines 137-142 and 190-194
SerializeConverted(language, groups) ==
  LET w == Align4(BE16(12) \o BE16(0) \o BE32(0) \o BE32(language) \o BE32(0)
                  \o WriteGroups(groups))
  IN Patch(Patch(w, 4, BE32(Len(w))), 12, BE32(Len(groups)))

ConvertSubtable4To12(s, debug) ==
  LET d == s.data
      seg_count_x2 == ReadU16At(d, 6)
      fields == SearchFields(seg_count_x2, debug)
      fail(r) == [res |-> r, st |-> s]
  IN IF seg_count_x2 = Err \/ ReadU16At(d, 8) = Err \/ ReadU16At(d, 10) = Err
        \/ ReadU16At(d, 12) = Err
     THEN fail("err")
     ELSE IF fields.res # "ok" THEN fail("panic")
     ELSE IF debug /\ (fields.search_range # ReadU16At(d, 8)
                       \/ fields.entry_selector # ReadU16At(d, 10)
                       \/ fields.range_shift # ReadU16At(d, 12))
     THEN fail("panic")
     ELSE IF ~SliceOk(d, 14, 14 + seg_count_x2) THEN fail("panic")
     ELSE IF ReadU16At(d, 14 + seg_count_x2) = Err THEN fail("err")
     ELSE IF ~SliceOk(d, 16 + seg_count_x2, 16 + 4 * seg_count_x2) THEN fail("panic")
     ELSE LET conv == ConvertSegments(d, seg_count_x2, 0, <<>>)
          IN IF conv.res # "ok" THEN fail(conv.res)
             ELSE [res |-> "ok",
                   st |-> Subtable(12, s.language,
                                   SerializeConverted(s.language, conv.groups), Owned)]

(***************************************************************************)
(* Table::read                                                             *)
(***************************************************************************)
EncodingRecord(platform_id, encoding_id, subtable_idx) ==
  [platform_id |-> platform_id, encoding_id |-> encoding_id,
   subtable_idx |-> subtable_idx]

\* lines 34-46: format, length and language of the subtable at offset;
\* res is "err" for a failed read or an unknown format
HeaderAt(d, offset) ==
  LET format == ReadU16At(d, offset)
      fail == [res |-> "err", format |-> 0, length |-> 0, language |-> 0]
      ok(len, lang) ==
        IF len = Err \/ lang = Err THEN fail
        ELSE [res |-> "ok", format |-> format, length |-> len, language |-> lang]
  IN IF format = Err THEN fail
     ELSE IF format \in {0, 2, 4, 6}
     THEN ok(ReadU16At(d, offset + 2), ReadU16At(d, offset + 4))
     ELSE IF format \in {8, 10, 12, 13}
     THEN ok(ReadU32At(d, offset + 4), ReadU32At(d, offset + 8))
     ELSE IF format = 14
     THEN ok(ReadU32At(d, offset + 2), 0)
     ELSE fail

SameRange_ByContent(s, d, offset, length) == s.data = Slice(d, offset, offset + length)

\* line 50, ptr::eq of two slices: same address and same length
SameRange(s, d, offset, length) == s.off = offset /\ Len(s.data) = length

\* 0-based index of the least element of hit (1-based); Err for none
FirstIndex(hit) ==
  IF hit = {} THEN Err ELSE (CHOOSE i \in hit : \A j \in hit : i <= j) - 1

\* lines 48-50: subtables.iter().position(|st| ptr::eq(subtable_data, ..))
PositionOfRange(subtables, d, offset, length) ==
  FirstIndex({i \in 1..Len(subtables) : SameRange(subtables[i], d, offset, length)})

\* subtables.iter().position(|st| st.format == format)
PositionOfFormat(subtables, format) ==
  FirstIndex({i \in 1..Len(subtables) : subtables[i].format = format})

RECURSIVE ReadRecords(_, _, _, _, _)
\* the loop of lines 30-61 from directory entry k on
ReadRecords(d, k, num_tables, records, subtables) ==
  IF k = num_tables
  THEN [res |-> "ok", encoding_records |-> records, subtables |-> subtables]
  ELSE LET platform_id == ReadU16At(d, 4 + 8 * k)
           encoding_id == ReadU16At(d, 6 + 8 * k)
           offset == ReadU32At(d, 8 + 8 * k)
           h == HeaderAt(d, offset)
           fail(r) == [res |-> r, encoding_records |-> <<>>, subtables |-> <<>>]
       IN IF platform_id = Err \/ encoding_id = Err \/ offset = Err THEN fail("err")
          ELSE IF h.res # "ok" THEN fail("err")
          ELSE IF ~SliceOk(d, offset, offset + h.length) THEN fail("panic")
          ELSE LET found == PositionOfRange(subtables, d, offset, h.length)
                   subtable_idx == IF found = Err THEN Len(subtables) ELSE found
                   subs == IF found = Err
                           THEN Append(subtables,
                                  Subtable(h.format, h.language,
                                           Slice(d, offset, offset + h.length), offset))
                           ELSE subtables
               IN ReadRecords(d, k + 1, num_tables,
                              Append(records,
                                     EncodingRecord(platform_id, encoding_id, subtable_idx)),
                              subs)

TableRead(d) ==
  LET version == ReadU16At(d, 0)
      num_tables == ReadU16At(d, 2)
      r == ReadRecords(d, 0, num_tables, <<>>, <<>>)
  IN IF version = Err \/ num_tables = Err THEN [res |-> "err", table |-> NoTable]
     ELSE IF r.res # "ok" THEN [res |-> r.res, table |-> NoTable]
     ELSE [res |-> "ok",
           table |-> [version |-> version, encoding_records |-> r.encoding_records,
                      subtables |-> r.subtables]]

(***************************************************************************)
(* Table::write                                                            *)
(***************************************************************************)
SortKey_NoLanguage(t, i) ==
  <<t.encoding_records[i].platform_id, t.encoding_records[i].encoding_id, 0>>

\* lines 74-77: the key of encoding record i (1-based)
SortKey(t, i) ==
  <<t.encoding_records[i].platform_id, t.encoding_records[i].encoding_id,
    t.subtables[t.encoding_records[i].subtable_idx + 1].language>>

\* lexicographic order of two keys
KeyLess(a, b) ==
  \/ a[1] < b[1]
  \/ a[1] = b[1] /\ a[2] < b[2]
  \/ a[1] = b[1] /\ a[2] = b[2] /\ a[3] < b[3]

RECURSIVE InsertByKey(_, _, _)
\* i goes after every index whose key is not greater (the sort is stable)
InsertByKey(t, sorted, i) ==
  IF sorted = <<>> THEN <<i>>
  ELSE IF KeyLess(SortKey(t, i), SortKey(t, Head(sorted)))
  THEN <<i>> \o sorted
  ELSE <<Head(sorted)>> \o InsertByKey(t, Tail(sorted), i)

RECURSIVE SortedIndices(_, _)
\* sorted_indices after sort_by_key, over the first n records
SortedIndices(t, n) ==
  IF n = 0 THEN <<>> ELSE InsertByKey(t, SortedIndices(t, n - 1), n)

HeaderLen_BySubtables(t) == 4 + 8 * Len(t.subtables)

\* line 80
HeaderLen(t) == 4 + 8 * Len(t.encoding_records)

RECURSIVE Offsets(_, _, _)
\* lines 81-85: offsets[i] for i >= k (1-based), offset being that of k
Offsets(subtables, k, offset) ==
  IF k > Len(subtables) THEN <<>>
  ELSE <<offset>> \o Offsets(subtables, k + 1, offset + Len(subtables[k].data))

RECURSIVE WriteRecords(_, _, _)
\* lines 86-91
WriteRecords(t, indices, offsets) ==
  IF indices = <<>> THEN <<>>
  ELSE LET rec == t.encoding_records[Head(indices)]
       IN BE16(rec.platform_id) \o BE16(rec.encoding_id)
          \o BE32(offsets[rec.subtable_idx + 1])
          \o WriteRecords(t, Tail(indices), offsets)

RECURSIVE WritePayloads(_, _, _, _)
\* lines 92-95: the assertion before payload i, then the payload
WritePayloads(w, subtables, offsets, i) ==
  IF i > Len(subtables) THEN [res |-> "ok", bytes |-> w]
  ELSE IF offsets[i] # Len(w) THEN [res |-> "panic", bytes |-> w]
  ELSE WritePayloads(w \o subtables[i].data, subtables, offsets, i + 1)

TableWrite(t) ==
  LET offsets == Offsets(t.subtables, 1, HeaderLen(t))
      head == BE16(t.version) \o BE16(Len(t.subtables) % 65536)
              \o WriteRecords(t, SortedIndices(t, Len(t.encoding_records)), offsets)
  IN WritePayloads(head, t.subtables, offsets, 1)

(***************************************************************************)
(* Evaluation of a format-12 group list: codepoint c maps to               *)
(* start_glyph_id + (c - start_code) of the first group containing it.     *)
(***************************************************************************)
Unmapped == 0 - 1

EvalGroups(groups, c) ==
  LET hit == {i \in 1..Len(groups) : groups[i][1] <= c /\ c <= groups[i][2]}
  IN IF hit = {} THEN Unmapped
     ELSE LET i == CHOOSE i \in hit : \A j \in hit : i <= j
          IN groups[i][3] + (c - groups[i][1])

\* the group list a format-12 payload holds, as a reader decodes it
GroupsOf(d) == ParseGroups12(d).groups

(***************************************************************************)
(* Inputs of the PUA remapper: format-12 payloads holding sorted,          *)
(* non-overlapping group lists around the window.                          *)
(***************************************************************************)
PuaCodes == (glyph_start_code - 2) .. (glyph_start_code + MaxGlyphs + 1)

GlyphIds == {0, 7}

RECURSIVE GroupLists(_, _)
GroupLists(codes, m) ==
  IF m = 0 \/ codes = {} THEN {<<>>}
  ELSE {<<>>} \cup UNION { UNION { UNION {
         { << <<s, e, g>> >> \o rest : rest \in GroupLists({x \in codes : x > e}, m - 1) }
         : g \in GlyphIds } : e \in {x \in codes : x >= s} } : s \in codes }

MkFormat12(language, n_groups, groups) ==
  LET body == BE16(12) \o BE16(0) \o BE32(0) \o BE32(language) \o BE32(n_groups)
              \o WriteGroups(groups)
  IN Patch(body, 4, BE32(Len(body)))

SortedGroups(groups) ==
  /\ \A i \in 1..Len(groups) : groups[i][1] <= groups[i][2]
  /\ \A i \in 2..Len(groups) : groups[i][1] > groups[i - 1][2]

InitPua ==
  /\ pc = "pua"
  /\ num_glyphs \in 0..MaxGlyphs
  /\ st0 \in { Subtable(12, 0, MkFormat12(0, Len(gs), gs), Owned)
               : gs \in GroupLists(PuaCodes, MaxGroups) }
  /\ st = st0
  /\ result = "none"
  /\ data = <<>> /\ map_glyphs_on = TRUE /\ debug_assertions = FALSE
  /\ table = NoTable /\ tab_12_id = 0 /\ pushed = None /\ table2 = NoTable

\* one call of map_glyph_to_pua_12(&mut st, num_glyphs)
PuaRemap ==
  /\ pc = "pua"
  /\ LET r == MapGlyphToPua12(st, num_glyphs)
     IN /\ result' = r.res
        /\ st' = r.st
  /\ pc' = "done"
  /\ UNCHANGED <<data, map_glyphs_on, num_glyphs, debug_assertions, table,
                 tab_12_id, st0, pushed, table2>>

NextPua == PuaRemap

SpecPua == InitPua /\ [][NextPua]_vars

PuaDone == pc = "done" /\ result = "ok" /\ st0.format = 12 /\ table = NoTable

Window == glyph_start_code .. GlyphEndCode(num_glyphs)

ProbeCodes == (glyph_start_code - 3) .. (glyph_start_code + MaxGlyphs + 3)

\* C1: after the remap with N >= 1, the resulting groups evaluated at
\* 0xF0000 + g give glyph id g, for every g in [0, N-1].
C1_PuaIdentity ==
  (PuaDone /\ num_glyphs >= 1) =>
    LET after == GroupsOf(st.data)
    IN \A g \in 0..(num_glyphs - 1) :
         EvalGroups(after, glyph_start_code + g) = g

\* C1 witness: a remap finished where input groups lay inside, across and
\* around the window.
C1_Witness ==
  /\ PuaDone /\ num_glyphs = 3
  /\ LET gs == GroupsOf(st0.data)
     IN /\ Len(gs) = 3
        /\ gs[1][1] < glyph_start_code /\ gs[1][2] >= glyph_start_code
        /\ gs[3][1] <= GlyphEndCode(num_glyphs) /\ gs[3][2] > GlyphEndCode(num_glyphs)

\* C2: every codepoint outside the window evaluates after the remap as it
\* did before it, and a group reaching past the end of the window leaves a
\* right remainder starting at glyph start_glyph_id + (W+N - start_code).
C2_OutsidePreserved ==
  PuaDone =>
    LET before == GroupsOf(st0.data)
        after == GroupsOf(st.data)
        gec == GlyphEndCode(num_glyphs)
    IN /\ \A c \in ProbeCodes \ Window :
            EvalGroups(after, c) = EvalGroups(before, c)
       /\ \A i \in 1..Len(before) :
            (before[i][1] <= gec /\ before[i][2] > gec
               /\ before[i][2] >= glyph_start_code) =>
              \E j \in 1..Len(after) :
                after[j] = <<gec + 1, before[i][2],
                             before[i][3] + (gec + 1 - before[i][1])>>

\* C2 witness: one group spanning the whole window was trimmed on both sides.
C2_Witness ==
  /\ PuaDone /\ num_glyphs = 2
  /\ \E i \in 1..Len(GroupsOf(st0.data)) :
       /\ GroupsOf(st0.data)[i][1] < glyph_start_code
       /\ GroupsOf(st0.data)[i][2] > GlyphEndCode(num_glyphs)
       /\ GroupsOf(st0.data)[i][3] = 7
  /\ Len(GroupsOf(st.data)) = Len(GroupsOf(st0.data)) + 2

\* C9: the output group list is well-formed (start <= end, strictly
\* ascending, disjoint), exactly one group meets the window and it is
\* (W, W+N-1, 0), and numGroups at byte 12 counts the groups emitted.
C9_GroupInvariant ==
  PuaDone =>
    LET gs == GroupsOf(st.data)
        gec == GlyphEndCode(num_glyphs)
    IN /\ SortedGroups(gs)
       /\ \E i \in 1..Len(gs) :
            /\ gs[i] = <<glyph_start_code, gec, 0>>
            /\ \A j \in 1..Len(gs) :
                 (gs[j][1] <= gec /\ gs[j][2] >= glyph_start_code) => j = i
       /\ ReadU32At(st.data, 12) * 12 + 16 = Len(st.data)

(***************************************************************************)
(* Format-4 payloads.  A segment is [sc, ec, delta, gids]: gids = <<>> is  *)
(* a constant-delta segment (idRangeOffset 0), otherwise gids holds the    *)
(* glyph-index-array entries of sc..ec.  Every table ends with the         *)
(* mandatory segment 0xFFFF..0xFFFF with idDelta 1.                        *)
(***************************************************************************)
RECURSIVE FloorLog2(_)
FloorLog2(n) == IF n <= 1 THEN 0 ELSE 1 + FloorLog2(n \div 2)

RECURSIVE Pow2(_)
Pow2(k) == IF k = 0 THEN 1 ELSE 2 * Pow2(k - 1)

RECURSIVE ArrayEntriesBefore(_, _)
ArrayEntriesBefore(segs, i) ==
  IF i = 1 THEN 0 ELSE Len(segs[i - 1].gids) + ArrayEntriesBefore(segs, i - 1)

RECURSIVE Concat16(_)
Concat16(xs) == IF xs = <<>> THEN <<>> ELSE BE16(Head(xs)) \o Concat16(Tail(xs))

RECURSIVE Flatten(_)
Flatten(xss) == IF xss = <<>> THEN <<>> ELSE Head(xss) \o Flatten(Tail(xss))

LastSegment == [sc |-> 65535, ec |-> 65535, delta |-> 1, gids |-> <<>>]

MkFormat4(language, segs0, stale) ==
  LET segs == Append(segs0, LastSegment)
      n == Len(segs)
      iro(i) == IF segs[i].gids = <<>> THEN 0
                ELSE 2 * (n - i + 1) + 2 * ArrayEntriesBefore(segs, i)
      search_range == 2 * Pow2(FloorLog2(n))
      body == BE16(4) \o BE16(0) \o BE16(language) \o BE16(2 * n)
              \o BE16(IF stale THEN 0 ELSE search_range)
              \o BE16(FloorLog2(n)) \o BE16(2 * n - search_range)
              \o Concat16([i \in 1..n |-> segs[i].ec]) \o BE16(0)
              \o Concat16([i \in 1..n |-> segs[i].sc])
              \o Concat16([i \in 1..n |-> segs[i].delta])
              \o Concat16([i \in 1..n |-> iro(i)])
              \o Concat16(Flatten([i \in 1..n |-> segs[i].gids]))
  IN Patch(body, 2, BE16(Len(body)))

\* The glyph id format 4 gives codepoint c: in the first segment holding c,
\* (idDelta + c) mod 65536 when idRangeOffset is 0, otherwise the
\* glyph-index-array entry idRangeOffset and c - startCode select.
EvalFormat4(d, c) ==
  LET x2 == ReadU16At(d, 6)
      hit == {i \in 0..(x2 \div 2 - 1) :
                ReadU16At(d, 16 + x2 + 2 * i) <= c /\ c <= ReadU16At(d, 14 + 2 * i)}
  IN IF hit = {} THEN Unmapped
     ELSE LET i == CHOOSE i \in hit : \A j \in hit : i <= j
              start == ReadU16At(d, 16 + x2 + 2 * i)
              delta == ReadU16At(d, 16 + 2 * x2 + 2 * i)
              iro == ReadU16At(d, 16 + 3 * x2 + 2 * i)
          IN IF iro = 0 THEN (delta + c) % 65536
             ELSE ReadU16At(d, 16 + 3 * x2 + 2 * i + iro + 2 * (c - start))

SegCodes == 65..(65 + MaxSpan)

\* -65 and -66 as u16: with -66 codepoint 65 maps to glyph 65535 and 66 to 0
Deltas == {0, 65471, 65470}

ArrayGlyphIds == {0, 5, 6}

SegmentsOn(sc, ec) ==
  { [sc |-> sc, ec |-> ec, delta |-> dl, gids |-> <<>>] : dl \in Deltas }
  \cup { [sc |-> sc, ec |-> ec, delta |-> 0, gids |-> gs]
         : gs \in [1..(ec - sc + 1) -> ArrayGlyphIds] }

RECURSIVE SegmentLists(_, _)
SegmentLists(codes, m) ==
  IF m = 0 \/ codes = {} THEN {<<>>}
  ELSE {<<>>} \cup UNION { UNION { UNION {
         { <<sg>> \o rest : rest \in SegmentLists({x \in codes : x > e}, m - 1) }
         : sg \in SegmentsOn(s, e) } : e \in {x \in codes : x >= s} } : s \in codes }

InitConv ==
  /\ pc = "conv"
  /\ debug_assertions \in BOOLEAN
  /\ st0 \in { Subtable(4, 0, MkFormat4(0, segs, stale), Owned)
               : segs \in SegmentLists(SegCodes, MaxSegs), stale \in BOOLEAN }
  /\ st = st0
  /\ result = "none"
  /\ num_glyphs = 0
  /\ data = <<>> /\ map_glyphs_on = TRUE
  /\ table = NoTable /\ tab_12_id = 0 /\ pushed = None /\ table2 = NoTable

\* one call of convert_subtable_4_to_12(&st)
Convert ==
  /\ pc = "conv"
  /\ LET r == ConvertSubtable4To12(st, debug_assertions)
     IN /\ result' = r.res
        /\ st' = r.st
  /\ pc' = "done"
  /\ UNCHANGED <<data, map_glyphs_on, num_glyphs, debug_assertions, table,
                 tab_12_id, st0, pushed, table2>>

NextConv == Convert

SpecConv == InitConv /\ [][NextConv]_vars

ConvDone == pc = "done" /\ result = "ok" /\ st0.format = 4 /\ table = NoTable

ConvProbes == SegCodes \cup {65535}

\* C3: for every codepoint c of a format-4 segment, the glyph id of the
\* format-4 segment equals the glyph id the generated format-12 groups give.
C3_ConversionPreserves ==
  ConvDone =>
    LET after == GroupsOf(st.data)
    IN \A c \in ConvProbes :
         EvalFormat4(st0.data, c) # Unmapped =>
           EvalGroups(after, c) = EvalFormat4(st0.data, c)

(***************************************************************************)
(* cmap buffers.  A table is described by its encoding records             *)
(* <<platform_id, encoding_id, slot>> in directory order and the payload   *)
(* of every slot; the payloads lie back to back after the directory.       *)
(***************************************************************************)
RECURSIVE TotalLen(_, _)
TotalLen(payloads, k) ==
  IF k = 0 THEN 0 ELSE Len(payloads[k]) + TotalLen(payloads, k - 1)

RECURSIVE Directory(_, _, _)
Directory(recs, payloads, k) ==
  IF k > Len(recs) THEN <<>>
  ELSE BE16(recs[k][1]) \o BE16(recs[k][2])
       \o BE32(4 + 8 * Len(recs) + TotalLen(payloads, recs[k][3] - 1))
       \o Directory(recs, payloads, k + 1)

MkCmap(recs, payloads) ==
  BE16(0) \o BE16(Len(recs)) \o Directory(recs, payloads, 1) \o Flatten(payloads)

\* format 4: codepoints 65, 66 -> glyphs 0, 1
PayloadF4 ==
  MkFormat4(0, << [sc |-> 65, ec |-> 66, delta |-> 65471, gids |-> <<>>] >>, FALSE)

\* format 12: one group across the start of the window
PayloadF12 ==
  MkFormat12(0, 1, << <<glyph_start_code - 1, glyph_start_code + 1, 7>> >>)

\* format 6 (trimmed table mapping) with language 1 and no entries
PayloadF6 == BE16(6) \o BE16(10) \o BE16(1) \o BE16(0) \o BE16(0)

\* format 14 (variation sequences) with no selector records
PayloadF14 == BE16(14) \o BE32(10) \o BE32(0)

Payloads == {PayloadF4, PayloadF12, PayloadF6, PayloadF14}

PlatformEncodings == {<<0, 3>>, <<0, 4>>, <<3, 1>>}

RECURSIVE SlotLists(_, _)
\* the slot of each record: a record names a slot already named or the next
SlotLists(n, used) ==
  IF n = 0 THEN {<<>>}
  ELSE UNION { { <<k>> \o rest
                 : rest \in SlotLists(n - 1, IF k > used THEN k ELSE used) }
               : k \in 1..(used + 1) }

MaxSlot(slots) ==
  IF slots = <<>> THEN 0
  ELSE CHOOSE m \in {slots[i] : i \in 1..Len(slots)} :
         \A i \in 1..Len(slots) : slots[i] <= m

\* no two records share (platform_id, encoding_id, subtable language)
UniqueKeys(pes, slots, pls) ==
  \A i, j \in 1..Len(slots) :
    (i < j) => <<pes[i], HeaderAt(pls[slots[i]], 0).language>>
                 # <<pes[j], HeaderAt(pls[slots[j]], 0).language>>

WellFormedCmaps ==
  UNION { UNION { { MkCmap([i \in 1..n |-> <<pes[i][1], pes[i][2], slots[i]>>], pls)
                    : <<pes, pls>> \in
                        { x \in [1..n -> PlatformEncodings]
                                  \X [1..MaxSlot(slots) -> Payloads] :
                            UniqueKeys(x[1], slots, x[2]) } }
                  : slots \in SlotLists(n, 0) }
          : n \in 1..MaxRecords }

\* format 4 whose segCountX2 claims more segments than the payload holds
PayloadF4LongSegs == Patch(PayloadF4, 6, BE16(16))

\* format 4 whose idRangeOffset points past the end of the payload
PayloadF4FarIndex ==
  MkFormat4(0, << [sc |-> 65, ec |-> 65, delta |-> 0, gids |-> <<5>>] >>, FALSE)

\* format 4 whose stored searchRange disagrees with segCountX2
PayloadF4Stale ==
  MkFormat4(0, << [sc |-> 65, ec |-> 66, delta |-> 65471, gids |-> <<>>] >>, TRUE)

\* format 12 whose numGroups claims one group more than the payload holds
PayloadF12ShortGroups ==
  MkFormat12(0, 2, << <<glyph_start_code - 1, glyph_start_code + 1, 7>> >>)

\* an unknown subtable format
PayloadUnknown == BE16(1) \o BE16(6) \o BE16(0)

DropLast(d, n) == SubSeq(d, 1, Len(d) - n)

MalformedCmaps ==
  { MkCmap(<< <<3, 1, 1>> >>, <<pl>>)
    : pl \in {PayloadF4LongSegs, DropLast(PayloadF4FarIndex, 2), PayloadF4Stale,
              PayloadF12ShortGroups, PayloadUnknown} }
  \cup UNION { { DropLast(MkCmap(<< <<3, 1, 1>> >>, <<pl>>), n)
                 : n \in {1, Len(pl), Len(pl) + 2} }
               : pl \in {PayloadF4, PayloadF12} }

(***************************************************************************)
(* map_glyphs, step by step                                                *)
(***************************************************************************)
Init ==
  /\ pc = "start"
  /\ data \in WellFormedCmaps \cup MalformedCmaps
  /\ map_glyphs_on \in BOOLEAN
  /\ debug_assertions \in BOOLEAN
  /\ num_glyphs \in {1, MaxGlyphs}
  /\ table = NoTable /\ tab_12_id = 0
  /\ st0 = NoSubtable /\ st = NoSubtable
  /\ result = "none" /\ pushed = None /\ table2 = NoTable

Failed(stage) == "fail_" \o stage

\* lines 272-275: remapping disabled, the input is pushed as it is
PassThrough ==
  /\ pc = "start" /\ ~map_glyphs_on
  /\ pushed' = data
  /\ result' = "ok"
  /\ pc' = "done"
  /\ UNCHANGED <<data, map_glyphs_on, num_glyphs, debug_assertions, table,
                 tab_12_id, st0, st, table2>>

\* line 276
ReadTable ==
  /\ pc = "start" /\ map_glyphs_on
  /\ LET r == TableRead(data)
     IN /\ table' = r.table
        /\ result' = IF r.res = "ok" THEN "none" ELSE r.res
        /\ pc' = IF r.res = "ok" THEN "read" ELSE Failed("read")
  /\ UNCHANGED <<data, map_glyphs_on, num_glyphs, debug_assertions,
                 tab_12_id, st0, st, pushed, table2>>

\* lines 277-290
LocateTab12(t, debug) ==
  LET id12 == PositionOfFormat(t.subtables, 12)
      id4 == PositionOfFormat(t.subtables, 4)
      conv == ConvertSubtable4To12(t.subtables[id4 + 1], debug)
  IN IF id12 # Err THEN [res |-> "ok", table |-> t, tab_12_id |-> id12]
     ELSE IF id4 = Err THEN [res |-> "err", table |-> t, tab_12_id |-> 0]
     ELSE IF conv.res # "ok" THEN [res |-> conv.res, table |-> t, tab_12_id |-> 0]
     ELSE [res |-> "ok",
           table |-> [t EXCEPT !.subtables = Append(@, conv.st)],
           tab_12_id |-> Len(t.subtables)]

Locate ==
  /\ pc = "read"
  /\ LET r == LocateTab12(table, debug_assertions)
     IN /\ table' = r.table
        /\ tab_12_id' = r.tab_12_id
        /\ result' = IF r.res = "ok" THEN "none" ELSE r.res
        /\ pc' = IF r.res = "ok" THEN "located" ELSE Failed("locate")
  /\ UNCHANGED <<data, map_glyphs_on, num_glyphs, debug_assertions,
                 st0, st, pushed, table2>>

\* lines 292-302
EnsureUnicodeRecord(t, id) ==
  IF \E i \in 1..Len(t.encoding_records) :
       t.encoding_records[i].platform_id = 0 /\ t.encoding_records[i].encoding_id = 4
  THEN t
  ELSE [t EXCEPT !.encoding_records = Append(@, EncodingRecord(0, 4, id))]

AddRecord ==
  /\ pc = "located"
  /\ table' = EnsureUnicodeRecord(table, tab_12_id)
  /\ pc' = "recorded"
  /\ UNCHANGED <<data, map_glyphs_on, num_glyphs, debug_assertions,
                 tab_12_id, st0, st, result, pushed, table2>>

\* line 304
Remap ==
  /\ pc = "recorded"
  /\ LET r == MapGlyphToPua12(table.subtables[tab_12_id + 1], num_glyphs)
     IN /\ table' = [table EXCEPT !.subtables[tab_12_id + 1] = r.st]
        /\ result' = IF r.res = "ok" THEN "none" ELSE r.res
        /\ pc' = IF r.res = "ok" THEN "remapped" ELSE Failed("remap")
  /\ UNCHANGED <<data, map_glyphs_on, num_glyphs, debug_assertions,
                 tab_12_id, st0, st, pushed, table2>>

\* lines 306-309
WriteTable ==
  /\ pc = "remapped"
  /\ LET r == TableWrite(table)
     IN /\ pushed' = IF r.res = "ok" THEN r.bytes ELSE None
        /\ result' = r.res
        /\ pc' = IF r.res = "ok" THEN "done" ELSE Failed("write")
  /\ UNCHANGED <<data, map_glyphs_on, num_glyphs, debug_assertions, table,
                 tab_12_id, st0, st, table2>>

Next == PassThrough \/ ReadTable \/ Locate \/ AddRecord \/ Remap \/ WriteTable

Spec == Init /\ [][Next]_vars

(***************************************************************************)
(* Table::read, Table::write and Table::read again, with no remap          *)
(***************************************************************************)
InitRT ==
  /\ pc = "rt_start"
  /\ data \in WellFormedCmaps
  /\ map_glyphs_on = FALSE /\ debug_assertions = FALSE /\ num_glyphs = 0
  /\ table = NoTable /\ tab_12_id = 0
  /\ st0 = NoSubtable /\ st = NoSubtable
  /\ result = "none" /\ pushed = None /\ table2 = NoTable

RTRead ==
  /\ pc = "rt_start"
  /\ LET r == TableRead(data)
     IN /\ table' = r.table
        /\ result' = IF r.res = "ok" THEN "none" ELSE r.res
        /\ pc' = IF r.res = "ok" THEN "rt_read" ELSE Failed("read")
  /\ UNCHANGED <<data, map_glyphs_on, num_glyphs, debug_assertions,
                 tab_12_id, st0, st, pushed, table2>>

RTWrite ==
  /\ pc = "rt_read"
  /\ LET r == TableWrite(table)
     IN /\ pushed' = IF r.res = "ok" THEN r.bytes ELSE None
        /\ result' = IF r.res = "ok" THEN "none" ELSE r.res
        /\ pc' = IF r.res = "ok" THEN "rt_written" ELSE Failed("write")
  /\ UNCHANGED <<data, map_glyphs_on, num_glyphs, debug_assertions, table,
                 tab_12_id, st0, st, table2>>

RTReread ==
  /\ pc = "rt_written"
  /\ LET r == TableRead(pushed)
     IN /\ table2' = r.table
        /\ result' = r.res
        /\ pc' = IF r.res = "ok" THEN "rt_done" ELSE Failed("reread")
  /\ UNCHANGED <<data, map_glyphs_on, num_glyphs, debug_assertions, table,
                 tab_12_id, st0, st, pushed>>

NextRT == RTRead \/ RTWrite \/ RTReread

SpecRT == InitRT /\ [][NextRT]_vars

(***************************************************************************)
(* Properties of the table model                                           *)
(***************************************************************************)
Wrote == pc = "done" /\ map_glyphs_on /\ pushed # None

\* directory entry k (0-based) of a serialized table
EmittedRecord(out, k) ==
  <<ReadU16At(out, 4 + 8 * k), ReadU16At(out, 6 + 8 * k), ReadU32At(out, 8 + 8 * k)>>

EmittedKey(out, k) ==
  <<EmittedRecord(out, k)[1], EmittedRecord(out, k)[2],
    HeaderAt(out, EmittedRecord(out, k)[3]).language>>

RECURSIVE PayloadStart(_, _)
\* where payload j (1-based) of table t begins when the payloads lie back
\* to back after a directory of one 8-byte entry per encoding record
PayloadStart(t, j) ==
  IF j = 1 THEN 4 + 8 * Len(t.encoding_records)
  ELSE PayloadStart(t, j - 1) + Len(t.subtables[j - 1].data)

\* the (platform_id, encoding_id, format, language, byte-length) tuples
Tuples(t) ==
  { <<t.encoding_records[i].platform_id, t.encoding_records[i].encoding_id,
      t.subtables[t.encoding_records[i].subtable_idx + 1].format,
      t.subtables[t.encoding_records[i].subtable_idx + 1].language,
      Len(t.subtables[t.encoding_records[i].subtable_idx + 1].data)>>
    : i \in 1..Len(t.encoding_records) }

\* C4: read, write, read yields the same set of (platform_id, encoding_id,
\* format, language, byte-length) tuples as the first read, also when
\* several encoding records share one subtable.
C4_RoundTrip ==
  (pc \in {"rt_done", "fail_reread"}) =>
    /\ pc = "rt_done"
    /\ Tuples(table2) = Tuples(table)
    /\ Len(table2.encoding_records) = Len(table.encoding_records)

\* C5: after a successful map_glyphs with remapping enabled, the serialized
\* table holds a (0, 4) encoding record whose subtable_idx is the remapped
\* format-12 subtable.
C5_UnicodeRecordOnRemapped ==
  Wrote =>
    \E i \in 1..Len(table.encoding_records) :
      table.encoding_records[i] = EncodingRecord(0, 4, tab_12_id)

\* C6: Table::write emits the encoding records in non-decreasing order of
\* (platform_id, encoding_id, language of the referenced subtable).
C6_RecordsSorted ==
  Wrote =>
    \A k \in 1..(Len(table.encoding_records) - 1) :
      ~KeyLess(EmittedKey(pushed, k), EmittedKey(pushed, k - 1))

\* C6 witness: a table was written after the orchestrator appended a
\* converted subtable and a (0, 4) record at the end of the lists, and the
\* appended record was emitted first.
C6_Witness ==
  /\ Wrote
  /\ Len(table.encoding_records) = 3
  /\ table.encoding_records[3] = EncodingRecord(0, 4, tab_12_id)
  /\ tab_12_id = Len(table.subtables) - 1
  /\ table.subtables[tab_12_id + 1].off = Owned
  /\ \E i \in 1..Len(table.subtables) : table.subtables[i].format = 4
  /\ table.encoding_records[1].platform_id = table.encoding_records[2].platform_id
  /\ table.encoding_records[1].encoding_id = table.encoding_records[2].encoding_id
  /\ KeyLess(SortKey(table, 2), SortKey(table, 1))
  /\ EmittedRecord(pushed, 0)[2] = 4

\* C7: no out-of-range access ends as a crash, and a failed map_glyphs
\* pushes no table.
C7_ErrorsNotCrashes ==
  /\ result # "panic"
  /\ (pc \in {Failed("read"), Failed("locate"), Failed("remap"), Failed("write")})
       => (result = "err" /\ pushed = None)

\* C8: two directory entries get the same subtable index exactly when
\* their offset and computed length agree, and the subtables are the
\* distinct byte ranges in first-seen order.
C8_DedupByRange ==
  (pc = "rt_read") =>
    LET recs == table.encoding_records
        off(i) == ReadU32At(data, 8 + 8 * (i - 1))
        len(i) == HeaderAt(data, off(i)).length
    IN /\ Len(recs) = ReadU16At(data, 2)
       /\ \A i, j \in 1..Len(recs) :
            (recs[i].subtable_idx = recs[j].subtable_idx)
              <=> (off(i) = off(j) /\ len(i) = len(j))
       /\ \A i \in 1..Len(recs) :
            /\ recs[i].subtable_idx < Len(table.subtables)
            /\ table.subtables[recs[i].subtable_idx + 1].data
                 = Slice(data, off(i), off(i) + len(i))
            /\ recs[i].subtable_idx
                 <= Cardinality({recs[j].subtable_idx : j \in 1..(i - 1)})
       /\ Len(table.subtables) = Cardinality({<<off(i), len(i)>> : i \in 1..Len(recs)})

\* C8 witness: two entries at different offsets whose bytes are equal were
\* read into two subtables.
C8_Witness ==
  /\ pc = "rt_read"
  /\ Len(table.encoding_records) = 2
  /\ Len(table.subtables) = 2
  /\ table.subtables[1].data = table.subtables[2].data
  /\ table.subtables[1].off # table.subtables[2].off

\* C10: the assertion before each payload holds, every emitted record's
\* offset is where the payload of its subtable begins, and the payloads lie
\* back to back in first-seen order from byte 4 + 8 * (number of records).
C10_OffsetsExact ==
  (map_glyphs_on /\ pc \in {"done", Failed("write")}) =>
    /\ pc = "done"
    /\ \A j \in 1..Len(table.subtables) :
         /\ SliceOk(pushed, PayloadStart(table, j),
                    PayloadStart(table, j) + Len(table.subtables[j].data))
         /\ Slice(pushed, PayloadStart(table, j),
                  PayloadStart(table, j) + Len(table.subtables[j].data))
              = table.subtables[j].data
    /\ Len(pushed) = PayloadStart(table, Len(table.subtables) + 1)
    /\ LET inmem == [i \in 1..Len(table.encoding_records) |->
                       <<table.encoding_records[i].platform_id,
                         table.encoding_records[i].encoding_id,
                         PayloadStart(table, table.encoding_records[i].subtable_idx + 1)>>]
       IN /\ \A k \in 1..Len(inmem) :
               \E i \in 1..Len(inmem) : EmittedRecord(pushed, k - 1) = inmem[i]
          /\ \A i \in 1..Len(inmem) :
               \E k \in 1..Len(inmem) : EmittedRecord(pushed, k - 1) = inmem[i]

\* C10 witness: a table with more encoding records than subtables and an
\* appended record was written.
C10_Witness ==
  /\ Wrote
  /\ Len(table.encoding_records) = 3
  /\ Len(table.subtables) = 1
  /\ table.subtables[1].off = Owned
====
